---- MODULE Spec2Model ----
(***************************************************************************)
(* Model of rask (ianwijma/running-tasks): the `run` command.              *)
(*                                                                         *)
(* A path is the sequence of its components (PathBuf compares component    *)
(* by component); "/r/a/rask.yaml" is <<"r", "a", "rask.yaml">>.  A        *)
(* directory pattern (an entry of `directories`) is a sequence of          *)
(* components too, some of which are the wildcards "*" and "**" or the     *)
(* parent reference "..".                                                  *)
(***************************************************************************)
EXTENDS Integers, Sequences, FiniteSets, TLC

\* Longest path, in components, the operating system resolves (PATH_MAX):
\* a longer one is reported as not existing.
MaxPathLen == 6

\* ------------------------------------------------------------------------
\* The directory tree the program runs on.

\* Names of directory entries in the order a sorted directory listing
\* returns them.
NameOrder == <<"a", "b", "c", "package.json", "rask.yaml">>

\* The directories that exist (canonical paths).
Directories == {<<>>, <<"r">>, <<"r", "a">>, <<"r", "b">>, <<"r", "a", "c">>}

\* The directories that may hold a configuration file.
ConfigDirs == Directories \ {<<>>}

DEFAULT_FILENAME == "rask.yaml"

\* What fs and manifest hold for a file that does not exist.
NoFile == [content |-> "absent"]

VARIABLES
    fs,                 \* ConfigDirs -> content of its rask.yaml, or NoFile
    manifest,           \* ConfigDirs -> content of its package.json, or NoFile
    entry,              \* argument --entry
    task_name,          \* argument task_name
    concurrency_mode,   \* how the tasks of one order are run
    match_mode,         \* how a task key is compared with task_name
    pc,                 \* position of the main thread
    entry_config_path,
    found_config_paths, \* discover_config_paths: Vec, in insertion order
    path_stack,         \* discover_config_paths: work stack
    read_log,           \* paths popped from the stack and read, in order
    config_files,       \* read_config_files result
    configs,            \* parse_config_files result
    config_structure,   \* resolve_config_structure result
    ordered_tasks,      \* resolve_task_order result
    highest_order,
    order,              \* loop variable of run_task_structure
    levels,             \* orders handed to run_task_order, in order
    tasks,              \* run_task_order: indices of the batch, in order
    task_threads,       \* run_task_order: JoinHandles pushed so far
    joined,             \* run_task_order: number of handles joined
    thread,             \* per ordered task: state of its thread
    process,            \* per ordered task: how its sh process ended
    starts,             \* per ordered task: number of times spawned
    order_result,       \* what run_task_order returned last
    task_exit,          \* what run_task_structure returned
    result,             \* what run returned to main
    failed_stage,       \* the stage that returned an error or panicked
    exit_code,          \* exit code of the process
    name_argument,      \* init: argument name
    init_path,          \* init: the path of the file to write
    reloaded,           \* what file::read_config_file gave for init_path
    listed,             \* list: the task names printed, in order
    pattern_root,       \* get_config_glob_pattern: argument root_path
    pattern_directory,  \* get_config_glob_pattern: argument glob_pattern
    pattern_result      \* get_config_glob_pattern: the pattern returned

vars == <<fs, manifest, entry, task_name, concurrency_mode, match_mode, pc,
          entry_config_path,
          found_config_paths, path_stack, read_log, config_files, configs,
          config_structure, ordered_tasks, highest_order, order, levels,
          tasks, task_threads, joined, thread, process, starts,
          order_result, task_exit, result, failed_stage, exit_code,
          name_argument, init_path, reloaded, listed,
          pattern_root, pattern_directory, pattern_result>>

\* ------------------------------------------------------------------------
\* Sequence helpers.

Range(s) == {s[i] : i \in DOMAIN s}

Contains(s, x) == \E i \in DOMAIN s : s[i] = x

Last(s) == s[Len(s)]

Front(s) == SubSeq(s, 1, Len(s) - 1)

RECURSIVE Concat(_)
Concat(ss) == IF ss = <<>> THEN <<>> ELSE Head(ss) \o Concat(Tail(ss))

\* ------------------------------------------------------------------------
\* Path resolution by the operating system.

\* Path::parent: the path without its last component.
Parent(path) == Front(path)

\* canonicalize(): ".." components resolved against the directory reached so
\* far; fails when a component does not exist.
RECURSIVE Walk(_, _)
Walk(dir, rest) ==
    IF rest = <<>> THEN [ok |-> TRUE, path |-> dir]
    ELSE IF dir \notin Directories THEN [ok |-> FALSE, path |-> <<>>]
    ELSE IF Head(rest) = ".."
         THEN Walk(IF dir = <<>> THEN <<>> ELSE Front(dir), Tail(rest))
    ELSE Walk(Append(dir, Head(rest)), Tail(rest))

\* The files of a directory (canonical path).
FilesOf(dir) ==
    IF dir \notin ConfigDirs THEN {}
    ELSE (IF fs[dir] # NoFile THEN {DEFAULT_FILENAME} ELSE {})
         \cup (IF manifest[dir] # NoFile THEN {"package.json"} ELSE {})

canonicalize(path) ==
    LET w == Walk(<<>>, path)
    IN  IF ~w.ok THEN w
        ELSE IF w.path \in Directories THEN w
        ELSE IF w.path # <<>> /\ Front(w.path) \in Directories
                /\ Last(w.path) \in FilesOf(Front(w.path)) THEN w
        ELSE [ok |-> FALSE, path |-> <<>>]

\* Path::exists / fs::metadata(..).is_ok(): too long a path is an error.
exists(path) == Len(path) <= MaxPathLen /\ canonicalize(path).ok

is_dir(path) == exists(path) /\ canonicalize(path).path \in Directories

is_file(path) == exists(path) /\ canonicalize(path).path \notin Directories

\* fs::read_dir: the entries of a directory, sorted by name.
read_dir(path) ==
    LET dir == canonicalize(path).path
        present == {n \in Range(NameOrder) :
                        Append(dir, n) \in Directories \/ n \in FilesOf(dir)}
    IN  SelectSeq(NameOrder, LAMBDA n : n \in present)

\* ------------------------------------------------------------------------
\* glob::glob: the paths of the file system a pattern matches, in the order
\* the iterator yields them.  A literal component is joined to the path
\* without reading the directory, ".." included, so a match is returned as
\* it is spelled by the pattern and is not canonical.

RECURSIVE glob_from(_, _)
glob_from(path, patterns) ==
    IF patterns = <<>> THEN <<path>>
    ELSE LET c == Head(patterns)
             rest == Tail(patterns)
         IN  IF c = ".."
             THEN IF is_dir(path) THEN glob_from(Append(path, c), rest)
                  ELSE <<>>
             ELSE IF c = "*"
             THEN IF is_dir(path)
                  THEN LET entries == read_dir(path)
                       IN  Concat([i \in DOMAIN entries |->
                                glob_from(Append(path, entries[i]), rest)])
                  ELSE <<>>
             ELSE IF c = "**"
             THEN IF is_dir(path)
                  THEN LET entries == SelectSeq(read_dir(path),
                                LAMBDA n : is_dir(Append(path, n)))
                       IN  glob_from(path, rest)
                           \o Concat([i \in DOMAIN entries |->
                                glob_from(Append(path, entries[i]), patterns)])
                  ELSE <<>>
             ELSE IF exists(Append(path, c))
                  THEN glob_from(Append(path, c), rest)
                  ELSE <<>>

\* Pattern::new / Glob::new reject a pattern with an unclosed "[".
pattern_valid(pattern) == "[" \notin Range(pattern)

glob(pattern) ==
    IF pattern_valid(pattern)
    THEN [status |-> "Ok", value |-> glob_from(<<>>, pattern)]
    ELSE [status |-> "Err", value |-> <<>>]

\* PathBuf::push: the components are added to the path; an absolute path,
\* whose first component is the root "/", takes its place.
push(path, more) ==
    IF more # <<>> /\ Head(more) = "/" THEN Tail(more) ELSE path \o more

\* get_config_glob_pattern: Path::ends_with compares whole components, so
\* the default file name is left out only when the last component is
\* ".yaml" itself.
get_config_glob_pattern(root_path, glob_pattern) ==
    LET pattern == push(root_path, glob_pattern)
    IN  IF pattern # <<>> /\ Last(pattern) = ".yaml"
        THEN pattern
        ELSE Append(pattern, DEFAULT_FILENAME)

\* ------------------------------------------------------------------------
\* Loading one configuration file.

\* What the file system holds at a path that names a file.
file_at(path) ==
    LET file == canonicalize(path).path
    IN  IF Last(file) = DEFAULT_FILENAME THEN fs[Front(file)]
        ELSE manifest[Front(file)]

\* read_file_content: Err when the file cannot be read.
read_file_content(path) ==
    IF is_file(path) /\ file_at(path).content # "unreadable"
    THEN [status |-> "Ok", value |-> file_at(path)]
    ELSE [status |-> "Err", value |-> NoFile]

\* read_config_file: the parsed record with the path it was read from; a
\* file that is not a configuration makes serde_yaml fail and expect() panic.
read_config_file(path) ==
    LET content == read_file_content(path)
    IN  IF content.status = "Err" THEN content
        ELSE IF content.value.content = "malformed"
        THEN [status |-> "panic", value |-> NoFile]
        ELSE [status |-> "Ok",
              value |-> [name |-> content.value.name,
                         task_engine |-> content.value.task_engine,
                         directories |-> content.value.directories,
                         tasks |-> content.value.tasks,
                         file_path |-> path,
                         dir_path |-> Parent(path)]]

\* ------------------------------------------------------------------------
\* discover_config_paths.

\* Faulty variant of add_found: a match is pushed whether or not it was found
\* before.
RECURSIVE add_found_unchecked(_, _)
add_found_unchecked(acc, matches) ==
    IF matches = <<>> THEN acc
    ELSE add_found_unchecked(
            [status |-> "Ok",
             found |-> Append(acc.found, Head(matches)),
             stack |-> Append(acc.stack, Head(matches))],
            Tail(matches))

\* The inner loop over the matches of one pattern: a match is pushed on
\* both vectors unless found_config_paths contains it.
RECURSIVE add_found(_, _)
add_found(acc, matches) ==
    IF matches = <<>> THEN acc
    ELSE add_found(
            IF Contains(acc.found, Head(matches)) THEN acc
            ELSE [status |-> "Ok",
                  found |-> Append(acc.found, Head(matches)),
                  stack |-> Append(acc.stack, Head(matches))],
            Tail(matches))

\* Faulty variant of discover_directories: only the first directory of a
\* configuration is expanded.
discover_directories_first(acc, config_directory, directories) ==
    IF directories = <<>> THEN acc
    ELSE LET matches == glob(get_config_glob_pattern(config_directory,
                                                     Head(directories)))
         IN  IF matches.status = "Err"
             THEN [status |-> "Err", found |-> acc.found, stack |-> acc.stack]
             ELSE add_found(acc, matches.value)

\* The loop over the directories of one configuration.
RECURSIVE discover_directories(_, _, _)
discover_directories(acc, config_directory, directories) ==
    IF directories = <<>> THEN acc
    ELSE LET matches == glob(get_config_glob_pattern(config_directory,
                                                     Head(directories)))
         IN  IF matches.status = "Err"
             THEN [status |-> "Err", found |-> acc.found, stack |-> acc.stack]
             ELSE discover_directories(add_found(acc, matches.value),
                                       config_directory, Tail(directories))

\* ------------------------------------------------------------------------
\* parse_config_files: the tasks of a configuration by its task engine.

\* A string built by format! is the sequence of its pieces; {:?} writes a
\* string between double quotes.
Debug(str) == <<"\"", str, "\"">>

EmptyTasks == [key \in {} |-> <<>>]

\* parse_config_tasks: every declared task, its command verbatim.
parse_config_tasks(config_file_tasks) ==
    [status |-> "Ok",
     value |-> [key \in DOMAIN config_file_tasks |->
                    [task_type |-> "SHELL",
                     content |-> config_file_tasks[key]]]]

\* parse_node_tasks: one task per script of package.json.
parse_node_tasks(dir_path, prefix) ==
    LET content == read_file_content(Append(dir_path, "package.json"))
    IN  IF content.status = "Err" THEN [status |-> "Err", value |-> EmptyTasks]
        ELSE IF content.value.content = "malformed"
        THEN [status |-> "panic", value |-> EmptyTasks]
        ELSE [status |-> "Ok",
              value |-> [key \in content.value.scripts |->
                            [task_type |-> "SHELL",
                             content |-> Debug(prefix) \o <<" run ">>
                                         \o Debug(key)]]]

parse_config_file(config_file) ==
    LET parsed == IF config_file.task_engine = "none"
                  THEN parse_config_tasks(config_file.tasks)
                  ELSE parse_node_tasks(config_file.dir_path,
                                        config_file.task_engine)
    IN  [status |-> parsed.status,
         value |-> [name |-> config_file.name,
                    task_engine |-> config_file.task_engine,
                    tasks |-> parsed.value,
                    file_path |-> config_file.file_path,
                    dir_path |-> config_file.dir_path,
                    directories |-> config_file.directories]]

\* ------------------------------------------------------------------------
\* resolve_config_structure.

\* globset's Glob::is_match on the text of a path: a literal component
\* matches itself, "*" also matches "/" and so one or more components,
\* "**" matches any number of components.
RECURSIVE is_match(_, _)
is_match(pattern, path) ==
    IF pattern = <<>> THEN path = <<>>
    ELSE IF Head(pattern) = "*"
    THEN \E k \in 1..Len(path) :
            is_match(Tail(pattern), SubSeq(path, k + 1, Len(path)))
    ELSE IF Head(pattern) = "**"
    THEN \E k \in 0..Len(path) :
            is_match(Tail(pattern), SubSeq(path, k + 1, Len(path)))
    ELSE path # <<>> /\ Head(path) = Head(pattern)
         /\ is_match(Tail(pattern), Tail(path))

\* Faulty variant of child_paths_of: only the first pattern is matched.
child_paths_of_first_pattern(config_directory, directories, paths) ==
    IF directories = <<>> THEN [status |-> "Ok", value |-> <<>>]
    ELSE LET path_pattern == get_config_glob_pattern(config_directory,
                                                     Head(directories))
         IN  IF ~pattern_valid(path_pattern)
             THEN [status |-> "Err", value |-> <<>>]
             ELSE [status |-> "Ok",
                   value |-> SelectSeq(paths,
                                LAMBDA path : is_match(path_pattern, path))]

\* The loop over the directories of a configuration: for each pattern the
\* keys of the map it matches, in the order the map iterates them.
RECURSIVE child_paths_of(_, _, _)
child_paths_of(config_directory, directories, paths) ==
    IF directories = <<>> THEN [status |-> "Ok", value |-> <<>>]
    ELSE LET path_pattern == get_config_glob_pattern(config_directory,
                                                     Head(directories))
             rest == child_paths_of(config_directory, Tail(directories), paths)
         IN  IF ~pattern_valid(path_pattern)
             THEN [status |-> "Err", value |-> <<>>]
             ELSE IF rest.status = "Err" THEN rest
             ELSE [status |-> "Ok",
                   value |-> SelectSeq(paths,
                                LAMBDA path : is_match(path_pattern, path))
                             \o rest.value]

NoStructure == [config |-> NoFile, children |-> <<>>]

\* construct_config_structure.  `paths` is config_path_map.keys() in the
\* iteration order of the map; `callers` are the paths of the calls the
\* recursion is inside of.  A path that matches a pattern of its own
\* configuration or of a descendant recurses without end: the stack
\* overflows and the process is killed.
RECURSIVE construct_config_structure(_, _, _, _)
construct_config_structure(config_path, config_path_map, paths, callers) ==
    IF config_path \notin DOMAIN config_path_map
    THEN [status |-> "Err", value |-> NoStructure]
    ELSE IF config_path \in callers
    THEN [status |-> "overflow", value |-> NoStructure]
    ELSE
    LET config == config_path_map[config_path]
        child_paths == child_paths_of(Parent(config_path), config.directories,
                                      paths)
        children == [i \in DOMAIN child_paths.value |->
                        construct_config_structure(child_paths.value[i],
                            config_path_map, paths,
                            callers \cup {config_path})]
    IN  IF child_paths.status = "Err"
        THEN [status |-> "Err", value |-> NoStructure]
        ELSE IF \E i \in DOMAIN children : children[i].status = "overflow"
        THEN [status |-> "overflow", value |-> NoStructure]
        ELSE IF \E i \in DOMAIN children : children[i].status # "Ok"
        THEN [status |-> "panic", value |-> NoStructure]
        ELSE [status |-> "Ok",
              value |-> [config |-> config,
                         children |-> [i \in DOMAIN children |->
                                            children[i].value]]]

\* resolve_config_structure: the map from file_path to configuration, then
\* the tree from the entry.
resolve_config_structure(entry_path, config_list, paths) ==
    LET path_map == [path \in {config_list[i].file_path :
                                    i \in DOMAIN config_list} |->
                        LET i == CHOOSE j \in DOMAIN config_list :
                                    /\ config_list[j].file_path = path
                                    /\ \A k \in DOMAIN config_list :
                                        config_list[k].file_path = path
                                            => k <= j
                        IN  config_list[i]]
    IN  construct_config_structure(entry_path, path_map, paths, {})

\* ------------------------------------------------------------------------
\* resolve_task_order.

\* Faulty variant of order_tasks: the children are given the order of their
\* parent.
RECURSIVE order_tasks_flat(_, _, _)
order_tasks_flat(structure, name, index) ==
    (IF name \in DOMAIN structure.config.tasks
     THEN <<[task |-> [command |-> structure.config.tasks[name].content,
                       directory |-> structure.config.dir_path],
             order |-> index]>>
     ELSE <<>>)
    \o Concat([i \in DOMAIN structure.children |->
                order_tasks_flat(structure.children[i], name, index)])

\* Faulty variant of order_tasks: a node that has tasks gives one of them,
\* whatever its key.
RECURSIVE order_tasks_any_key(_, _, _)
order_tasks_any_key(structure, name, index) ==
    (IF DOMAIN structure.config.tasks # {}
     THEN LET key == IF name \in DOMAIN structure.config.tasks THEN name
                     ELSE CHOOSE k \in DOMAIN structure.config.tasks : TRUE
          IN  <<[task |-> [command |-> structure.config.tasks[key].content,
                           directory |-> structure.config.dir_path],
                 order |-> index]>>
     ELSE <<>>)
    \o Concat([i \in DOMAIN structure.children |->
                order_tasks_any_key(structure.children[i], name, index + 1)])

\* order_tasks: the task named task_name of the node, if it has one, then
\* the tasks of the children, one order deeper.
RECURSIVE order_tasks(_, _, _)
order_tasks(structure, name, index) ==
    (IF name \in DOMAIN structure.config.tasks
     THEN <<[task |-> [command |-> structure.config.tasks[name].content,
                       directory |-> structure.config.dir_path],
             order |-> index]>>
     ELSE <<>>)
    \o Concat([i \in DOMAIN structure.children |->
                order_tasks(structure.children[i], name, index + 1)])

resolve_task_order(structure, name) == order_tasks(structure, name, 0)

\* find_highest_order: the largest order of the list, 0 for an empty list.
RECURSIVE find_highest_order(_)
find_highest_order(list) ==
    IF list = <<>> THEN 0
    ELSE LET rest == find_highest_order(Front(list))
         IN  IF Last(list).order > rest THEN Last(list).order ELSE rest

\* ------------------------------------------------------------------------
\* The inputs: what the directory tree holds and the arguments of `run`.

ShellCommand == <<"make">>

ConfigFileOf(dir, directories, with_task, task_engine) ==
    [content |-> "ok", name |-> Last(dir), task_engine |-> task_engine,
     directories |-> directories,
     tasks |-> IF with_task THEN [key \in {"build"} |-> ShellCommand]
               ELSE EmptyTasks]

Unreadable == [content |-> "unreadable"]
Malformed == [content |-> "malformed"]

\* The directory patterns a configuration of each directory declares in
\* the runs of the whole command.
DirectoryChoices(dir) ==
    IF dir = <<"r">>
    THEN {<<>>, <<<<"*">>>>, <<<<"**">>>>, <<<<"a">>, <<"*">>>>, <<<<"[">>>>}
    ELSE IF dir = <<"r", "a">>
    THEN {<<>>, <<<<"*">>>>}
    ELSE {<<>>}

EngineChoices(dir) == IF dir = <<"r", "b">> THEN {"none", "npm"} ELSE {"none"}

FileChoices(dir) ==
    {NoFile}
    \cup {ConfigFileOf(dir, d, t, e) :
            d \in DirectoryChoices(dir), t \in BOOLEAN, e \in EngineChoices(dir)}
    \cup (IF dir = <<"r">> THEN {Unreadable, Malformed} ELSE {})

ManifestChoices(dir) ==
    IF dir = <<"r", "b">>
    THEN {NoFile, [content |-> "ok", scripts |-> {"build"}]}
    ELSE {NoFile}

EntryChoices == {<<"r">>, <<"r", "rask.yaml">>, <<"x">>}

\* The directory trees whose file of directory dir is drawn from Files[dir].
FileSystems(Files) ==
    {[d \in ConfigDirs |->
        IF d = <<"r">> THEN fr ELSE IF d = <<"r", "a">> THEN fa
        ELSE IF d = <<"r", "b">> THEN fb ELSE fc] :
     fr \in Files[<<"r">>], fa \in Files[<<"r", "a">>],
     fb \in Files[<<"r", "b">>], fc \in Files[<<"r", "a", "c">>]}

NoPath == <<>>

\* The state of the commands `init` and `list`, and of a call of
\* get_config_glob_pattern on its own, while none of them has acted.
NotRead == [status |-> "none"]

InitOtherCommands ==
    /\ name_argument = ""
    /\ init_path = NoPath
    /\ reloaded = NotRead
    /\ listed = <<>>
    /\ pattern_root = NoPath
    /\ pattern_directory = <<>>
    /\ pattern_result = NoPath

\* The state of `run` before its first stage.
InitStages ==
    /\ entry_config_path = NoPath
    /\ found_config_paths = <<>>
    /\ path_stack = <<>>
    /\ read_log = <<>>
    /\ config_files = <<>>
    /\ configs = <<>>
    /\ config_structure = NoStructure
    /\ highest_order = 0
    /\ order = 0
    /\ levels = <<>>
    /\ tasks = <<>>
    /\ task_threads = <<>>
    /\ joined = 0
    /\ order_result = "none"
    /\ task_exit = "none"
    /\ result = "none"
    /\ failed_stage = "none"
    /\ exit_code = -1

\* What every run starts from, whatever its inputs.
InitRun ==
    /\ InitOtherCommands
    /\ task_name = "build"
    /\ match_mode = "Exact"
    /\ InitStages

\* `run` of run.rs on a directory tree: its batches are parallel.
Init ==
    /\ fs \in FileSystems([d \in ConfigDirs |-> FileChoices(d)])
    /\ manifest \in FileSystems([d \in ConfigDirs |-> ManifestChoices(d)])
    /\ entry \in EntryChoices
    /\ concurrency_mode = "Parallel"
    /\ InitRun
    /\ ordered_tasks = <<>>
    /\ thread = <<>>
    /\ process = <<>>
    /\ starts = <<>>
    /\ pc = "resolve_config_path"

other_commands == <<name_argument, init_path, reloaded, listed,
                    pattern_root, pattern_directory, pattern_result>>
world == <<fs, manifest, entry, task_name, concurrency_mode, match_mode,
           other_commands>>
discovery == <<found_config_paths, path_stack, read_log>>
loaded == <<config_files, configs, config_structure, ordered_tasks>>
engine == <<highest_order, order, levels, tasks, task_threads, joined,
            thread, process, starts, order_result, task_exit>>

\* A stage of `run` returned Err: the ? operator returns it to main.
Fail(stage) ==
    /\ pc' = "main"
    /\ result' = "Err"
    /\ failed_stage' = stage
    /\ exit_code' = exit_code

\* A stage of `run` panicked on the main thread: the process ends with the
\* exit code of a panic.
Panic(stage) ==
    /\ pc' = "exited"
    /\ result' = "panic"
    /\ failed_stage' = stage
    /\ exit_code' = 101

\* The stack of the main thread overflowed: the process is aborted.
Overflow(stage) ==
    /\ pc' = "exited"
    /\ result' = "overflow"
    /\ failed_stage' = stage
    /\ exit_code' = 134

Proceed(next) ==
    /\ pc' = next
    /\ UNCHANGED <<result, failed_stage, exit_code>>

Outcome(status, stage, next) ==
    IF status = "Ok" THEN Proceed(next)
    ELSE IF status = "Err" THEN Fail(stage)
    ELSE IF status = "panic" THEN Panic(stage)
    ELSE Overflow(stage)

\* ------------------------------------------------------------------------
\* run: from the entry to the ordered tasks.

\* Faulty variant of find_config_file: the default file is not looked for.
find_config_file_unchecked(directory_path) ==
    [status |-> "Ok", value |-> Append(directory_path, DEFAULT_FILENAME)]

\* find_config_file: the default file of a directory.
find_config_file(directory_path) ==
    IF exists(Append(directory_path, DEFAULT_FILENAME))
    THEN [status |-> "Ok", value |-> Append(directory_path, DEFAULT_FILENAME)]
    ELSE [status |-> "Err", value |-> NoPath]

\* resolve_config_path: the canonical entry, or the default file of it.
resolve_config_path(path) ==
    LET full_path == canonicalize(path)
    IN  IF ~exists(path) THEN [status |-> "Err", value |-> NoPath]
        ELSE IF is_dir(full_path.path) THEN find_config_file(full_path.path)
        ELSE [status |-> "Ok", value |-> full_path.path]

ResolveConfigPath ==
    /\ pc = "resolve_config_path"
    /\ \E resolved \in {resolve_config_path(entry)} :
        /\ entry_config_path' = resolved.value
        /\ Outcome(resolved.status, "resolve_config_path",
                   "discover_config_paths")
    /\ UNCHANGED <<world, discovery, loaded, engine>>

\* discover_config_paths, before the loop: both vectors hold the entry.
DiscoverBegin ==
    /\ pc = "discover_config_paths"
    /\ found_config_paths' = <<entry_config_path>>
    /\ path_stack' = <<entry_config_path>>
    /\ pc' = "discover_loop"
    /\ UNCHANGED <<world, entry_config_path, read_log, loaded, engine,
                   result, failed_stage, exit_code>>

\* The body of the while loop: pop a path, read it, glob each of its
\* directories.  The result holds both vectors and how the body ended.
discover_iteration(found, stack) ==
    LET path == Last(stack)
        config_file == read_config_file(path)
        acc == discover_directories(
                    [status |-> "Ok", found |-> found, stack |-> Front(stack)],
                    Parent(path),
                    IF config_file.status = "Ok"
                    THEN config_file.value.directories ELSE <<>>)
    IN  [status |-> IF config_file.status = "Ok" THEN acc.status
                    ELSE config_file.status,
         found |-> acc.found,
         stack |-> acc.stack]

\* One iteration of the while loop.
DiscoverLoop ==
    /\ pc = "discover_loop"
    /\ path_stack # <<>>
    /\ \E iteration \in {discover_iteration(found_config_paths, path_stack)} :
        /\ read_log' = Append(read_log, Last(path_stack))
        /\ found_config_paths' = iteration.found
        /\ path_stack' = iteration.stack
        /\ Outcome(iteration.status, "discover_config_paths",
                   "discover_loop")
    /\ UNCHANGED <<world, entry_config_path, loaded, engine>>

\* The stack is empty: discover_config_paths returns found_config_paths.
DiscoverReturn ==
    /\ pc = "discover_loop"
    /\ path_stack = <<>>
    /\ pc' = "read_config_files"
    /\ UNCHANGED <<world, entry_config_path, discovery, loaded, engine,
                   result, failed_stage, exit_code>>

\* Faulty variant of FirstStatus: the elements that failed are passed over.
FirstStatusOk(results) == "Ok"

\* The ? in the loop of read_config_files and of parse_config_files: the
\* status of the first element that is not Ok, else Ok.
FirstStatus(results) ==
    IF \A i \in DOMAIN results : results[i].status = "Ok" THEN "Ok"
    ELSE results[CHOOSE i \in DOMAIN results :
                    /\ results[i].status # "Ok"
                    /\ \A j \in 1..(i - 1) : results[j].status = "Ok"].status

\* read_config_files: every discovered path read again, in order.
ReadConfigFiles ==
    /\ pc = "read_config_files"
    /\ LET files == [i \in DOMAIN found_config_paths |->
                        read_config_file(found_config_paths[i])]
       IN  /\ config_files' = IF FirstStatus(files) = "Ok"
                              THEN [i \in DOMAIN files |-> files[i].value]
                              ELSE <<>>
           /\ Outcome(FirstStatus(files), "read_config_files",
                      "parse_config_files")
    /\ UNCHANGED <<world, entry_config_path, discovery, configs,
                   config_structure, ordered_tasks, engine>>

\* parse_config_files: the tasks of every configuration resolved.
ParseConfigFiles ==
    /\ pc = "parse_config_files"
    /\ LET parsed == [i \in DOMAIN config_files |->
                        parse_config_file(config_files[i])]
       IN  /\ configs' = IF FirstStatus(parsed) = "Ok"
                         THEN [i \in DOMAIN parsed |-> parsed[i].value]
                         ELSE <<>>
           /\ Outcome(FirstStatus(parsed), "parse_config_files",
                      "resolve_config_structure")
    /\ UNCHANGED <<world, entry_config_path, discovery, config_files,
                   config_structure, ordered_tasks, engine>>

Reverse(s) == [i \in DOMAIN s |-> s[Len(s) + 1 - i]]

\* The orders in which the HashMap may iterate its keys.  The order is
\* unspecified; the model takes the order of insertion and its reverse.
KeyOrders(config_list) ==
    LET inserted == [i \in DOMAIN config_list |-> config_list[i].file_path]
    IN  {inserted, Reverse(inserted)}

\* resolve_config_structure, with the tree built by the recursion.
ResolveConfigStructure ==
    /\ pc = "resolve_config_structure"
    /\ \E paths \in KeyOrders(configs) :
        LET structure == resolve_config_structure(entry_config_path, configs,
                                                  paths)
        IN  /\ config_structure' = structure.value
            /\ Outcome(structure.status, "resolve_config_structure",
                       "resolve_task_order")
    /\ UNCHANGED <<world, entry_config_path, discovery, config_files, configs,
                   ordered_tasks, engine>>

\* resolve_task_order: the tasks keyed task_name with their orders; a key
\* is looked up in the map, so it is compared as a whole.
ResolveTaskOrder ==
    /\ pc = "resolve_task_order"
    /\ match_mode = "Exact"
    /\ ordered_tasks' = resolve_task_order(config_structure, task_name)
    /\ thread' = [i \in DOMAIN ordered_tasks' |-> "unspawned"]
    /\ process' = [i \in DOMAIN ordered_tasks' |-> "none"]
    /\ starts' = [i \in DOMAIN ordered_tasks' |-> 0]
    /\ pc' = "run_task_structure"
    /\ UNCHANGED <<world, entry_config_path, discovery, config_files, configs,
                   config_structure, highest_order, order, levels, tasks,
                   task_threads, joined, order_result, task_exit, result,
                   failed_stage, exit_code>>

\* ------------------------------------------------------------------------
\* run_task_structure: the execution engine.

\* run_task_structure, before the loop: the first order is the highest.
RunTaskStructure ==
    /\ pc = "run_task_structure"
    /\ highest_order' = find_highest_order(ordered_tasks)
    /\ order' = find_highest_order(ordered_tasks)
    /\ pc' = "run_task_order"
    /\ UNCHANGED <<world, entry_config_path, discovery, loaded, levels, tasks,
                   task_threads, joined, thread, process, starts,
                   order_result, task_exit, result, failed_stage, exit_code>>

\* run_task_order, first loop: the tasks whose order is `order`, in the
\* order of the list.
batch_of(list, task_order) ==
    SelectSeq([i \in DOMAIN list |-> i],
              LAMBDA i : list[i].order = task_order)

RunTaskOrder ==
    /\ pc = "run_task_order"
    /\ tasks' = batch_of(ordered_tasks, order)
    /\ task_threads' = <<>>
    /\ joined' = 0
    /\ levels' = Append(levels, order)
    /\ pc' = IF tasks' = <<>> THEN "join" ELSE "execute_task"
    /\ UNCHANGED <<world, entry_config_path, discovery, loaded, highest_order,
                   order, thread, process, starts, order_result, task_exit,
                   result, failed_stage, exit_code>>

\* Faulty variant of ExecuteTask: no further task of the batch is spawned
\* once a spawned one has failed.
ExecuteTaskFailFast ==
    /\ pc = "execute_task"
    /\ concurrency_mode = "Parallel"
    /\ Len(task_threads) < Len(tasks)
    /\ IF \E i \in DOMAIN task_threads :
            thread[task_threads[i]] \in {"false", "panicked"}
       THEN /\ pc' = "join"
            /\ UNCHANGED <<thread, starts, task_threads>>
       ELSE LET task == tasks[Len(task_threads) + 1]
            IN  /\ thread' = [thread EXCEPT ![task] = "running"]
                /\ starts' = [starts EXCEPT ![task] = @ + 1]
                /\ task_threads' = Append(task_threads, task)
                /\ pc' = IF Len(task_threads') = Len(tasks) THEN "join"
                         ELSE "execute_task"
    /\ UNCHANGED <<world, entry_config_path, discovery, loaded, highest_order,
                   order, levels, tasks, joined, process, order_result,
                   task_exit, result, failed_stage, exit_code>>

\* run_task_order, second loop: execute_task spawns the thread of the next
\* task of the batch and its handle is pushed.  Every thread is spawned
\* before the first join: this is the parallel mode of the engine.
ExecuteTask ==
    /\ pc = "execute_task"
    /\ concurrency_mode = "Parallel"
    /\ Len(task_threads) < Len(tasks)
    /\ LET task == tasks[Len(task_threads) + 1]
       IN  /\ thread' = [thread EXCEPT ![task] = "running"]
           /\ starts' = [starts EXCEPT ![task] = @ + 1]
           /\ task_threads' = Append(task_threads, task)
    /\ pc' = IF Len(task_threads') = Len(tasks) THEN "join" ELSE "execute_task"
    /\ UNCHANGED <<world, entry_config_path, discovery, loaded, highest_order,
                   order, levels, tasks, joined, process, order_result,
                   task_exit, result, failed_stage, exit_code>>

\* What the closure of a task thread ends with: status.success() of an exit
\* code 0, of another exit code, or the panic of expect() when sh could not
\* be started.
\* Faulty variant of thread_result: the exit code is not looked at.
thread_result_any_exit(outcome) ==
    IF outcome = "not_started" THEN "panicked" ELSE "true"

thread_result(outcome) ==
    IF outcome = "exit_zero" THEN "true"
    ELSE IF outcome = "exit_nonzero" THEN "false"
    ELSE "panicked"

ProcessOutcomes == {"exit_zero", "exit_nonzero", "not_started"}

\* The thread of a task runs its command to the end.  A thread lives no
\* longer than the process.
TaskThread(task) ==
    /\ pc # "exited"
    /\ thread[task] = "running"
    /\ \E outcome \in ProcessOutcomes :
        /\ process' = [process EXCEPT ![task] = outcome]
        /\ thread' = [thread EXCEPT ![task] = thread_result(outcome)]
    /\ UNCHANGED <<world, pc, entry_config_path, discovery, loaded,
                   highest_order, order, levels, tasks, task_threads, joined,
                   starts, order_result, task_exit, result, failed_stage,
                   exit_code>>

\* What run_task_order does with the result of one join: Ok(true) goes on
\* to the next handle, anything else returns Err at once.
\* Faulty variant of join_result: only a panic of the thread ends the batch.
join_result_lenient(joined_thread) ==
    IF joined_thread = "panicked" THEN "Err" ELSE "continue"

join_result(joined_thread) ==
    IF joined_thread = "true" THEN "continue" ELSE "Err"

\* run_task_order, third loop: join the next handle, which blocks until its
\* thread has ended.
JoinThread ==
    /\ pc = "join"
    /\ joined < Len(task_threads)
    /\ thread[task_threads[joined + 1]] # "running"
    /\ IF join_result(thread[task_threads[joined + 1]]) = "continue"
       THEN /\ joined' = joined + 1
            /\ UNCHANGED <<pc, order_result>>
       ELSE /\ order_result' = "Err"
            /\ pc' = "order_returned"
            /\ UNCHANGED joined
    /\ UNCHANGED <<world, entry_config_path, discovery, loaded, highest_order,
                   order, levels, tasks, task_threads, thread, process,
                   starts, task_exit, result, failed_stage, exit_code>>

\* Faulty variant of RunTaskOrderReturn: a batch without tasks is an error.
RunTaskOrderReturnEmptyFails ==
    /\ pc = "join"
    /\ joined = Len(task_threads)
    /\ order_result' = IF tasks = <<>> THEN "Err" ELSE "Ok"
    /\ pc' = "order_returned"
    /\ UNCHANGED <<world, entry_config_path, discovery, loaded, highest_order,
                   order, levels, tasks, task_threads, joined, thread,
                   process, starts, task_exit, result, failed_stage,
                   exit_code>>

\* run_task_order: every handle joined, Ok(()).
RunTaskOrderReturn ==
    /\ pc = "join"
    /\ joined = Len(task_threads)
    /\ order_result' = "Ok"
    /\ pc' = "order_returned"
    /\ UNCHANGED <<world, entry_config_path, discovery, loaded, highest_order,
                   order, levels, tasks, task_threads, joined, thread,
                   process, starts, task_exit, result, failed_stage,
                   exit_code>>

\* run_task_structure, the match on what run_task_order returned: Err ends
\* the loop with FAILURE, Ok goes on to the next lower order, SUCCESS after
\* order 0.
\* Faulty variant of next_step: the loop goes on after a failed batch.
next_step_past_failure(returned, current_order) ==
    IF current_order > 0 THEN "next_order"
    ELSE IF returned = "Err" THEN "FAILURE"
    ELSE "SUCCESS"

\* Faulty variant of next_step: a failed batch ends the run with SUCCESS.
next_step_success(returned, current_order) ==
    IF returned = "Err" \/ current_order = 0 THEN "SUCCESS"
    ELSE "next_order"

next_step(returned, current_order) ==
    IF returned = "Err" THEN "FAILURE"
    ELSE IF current_order = 0 THEN "SUCCESS"
    ELSE "next_order"

RunTaskStructureMatch ==
    /\ pc = "order_returned"
    /\ IF next_step(order_result, order) = "next_order"
       THEN /\ order' = order - 1
            /\ pc' = "run_task_order"
            /\ UNCHANGED task_exit
       ELSE /\ task_exit' = next_step(order_result, order)
            /\ pc' = "report"
            /\ UNCHANGED order
    /\ UNCHANGED <<world, entry_config_path, discovery, loaded, highest_order,
                   levels, tasks, task_threads, joined, thread, process,
                   starts, order_result, result, failed_stage, exit_code>>

\* run, after run_task_structure: the outcome is printed and run returns
\* Ok(()) for SUCCESS and for FAILURE.
run_result(exit) == "Ok"

RunReport ==
    /\ pc = "report"
    /\ result' = run_result(task_exit)
    /\ pc' = "main"
    /\ UNCHANGED <<world, entry_config_path, discovery, loaded, engine,
                   failed_stage, exit_code>>

\* main, the match on the result of the command: exit(0) for Ok; Err is
\* printed and main returns, which ends the process with exit code 0.
main_exit_code(returned) == 0

Main ==
    /\ pc = "main"
    /\ exit_code' = main_exit_code(result)
    /\ pc' = "exited"
    /\ UNCHANGED <<world, entry_config_path, discovery, loaded, engine,
                   result, failed_stage>>

\* ------------------------------------------------------------------------
\* The sequential mode of the engine.  run.rs has no such mode; it is taken
\* from the description of the engine: the tasks of a batch run one at a
\* time in selection order, and the first failure ends the batch.

SequentialExecute ==
    /\ pc = "execute_task"
    /\ concurrency_mode = "Sequential"
    /\ Len(task_threads) < Len(tasks)
    /\ LET task == tasks[Len(task_threads) + 1]
       IN  /\ thread' = [thread EXCEPT ![task] = "running"]
           /\ starts' = [starts EXCEPT ![task] = @ + 1]
           /\ task_threads' = Append(task_threads, task)
    /\ pc' = "sequential_wait"
    /\ UNCHANGED <<world, entry_config_path, discovery, loaded, highest_order,
                   order, levels, tasks, joined, process, order_result,
                   task_exit, result, failed_stage, exit_code>>

\* Faulty variant of sequential_next: the batch goes on after a failed task.
sequential_next_past_failure(task_result, all_started) ==
    IF all_started THEN "join" ELSE "execute_task"

sequential_next(task_result, all_started) ==
    IF task_result # "true" THEN "order_returned"
    ELSE IF all_started THEN "join"
    ELSE "execute_task"

SequentialWait ==
    /\ pc = "sequential_wait"
    /\ thread[Last(task_threads)] # "running"
    /\ pc' = sequential_next(thread[Last(task_threads)],
                             Len(task_threads) = Len(tasks))
    /\ IF pc' = "order_returned"
       THEN order_result' = "Err" /\ UNCHANGED joined
       ELSE joined' = joined + 1 /\ UNCHANGED order_result
    /\ UNCHANGED <<world, entry_config_path, discovery, loaded, highest_order,
                   order, levels, tasks, task_threads, thread, process,
                   starts, task_exit, result, failed_stage, exit_code>>

Next ==
    \/ ResolveConfigPath
    \/ DiscoverBegin
    \/ DiscoverLoop
    \/ DiscoverReturn
    \/ ReadConfigFiles
    \/ ParseConfigFiles
    \/ ResolveConfigStructure
    \/ ResolveTaskOrder
    \/ RunTaskStructure
    \/ RunTaskOrder
    \/ ExecuteTask
    \/ \E task \in DOMAIN thread : TaskThread(task)
    \/ JoinThread
    \/ RunTaskOrderReturn
    \/ RunTaskStructureMatch
    \/ RunReport
    \/ Main

Spec == Init /\ [][Next]_vars

\* ------------------------------------------------------------------------
\* The execution engine on its own: run_task_structure on every list of
\* ordered tasks within the bounds, in either mode.

\* Most tasks of a list, and the deepest order.
MaxTasks == 4
MaxOrder == 2

EngineTask == [command |-> ShellCommand, directory |-> <<"r">>]

\* The lists resolve_task_order can return: order_tasks visits the root
\* first, so only the first task can have order 0.
OrderedTaskLists ==
    UNION {{list \in [1..n -> [task : {EngineTask}, order : 0..MaxOrder]] :
                \A i \in 2..n : list[i].order > 0} : n \in 0..MaxTasks}

InitEngine ==
    /\ fs = [d \in ConfigDirs |-> NoFile]
    /\ manifest = [d \in ConfigDirs |-> NoFile]
    /\ entry = <<"r">>
    /\ concurrency_mode \in {"Parallel", "Sequential"}
    /\ InitRun
    /\ \E list \in OrderedTaskLists :
        /\ ordered_tasks = list
        /\ thread = [i \in DOMAIN list |-> "unspawned"]
        /\ process = [i \in DOMAIN list |-> "none"]
        /\ starts = [i \in DOMAIN list |-> 0]
    /\ pc = "run_task_structure"

NextEngine ==
    \/ RunTaskStructure
    \/ RunTaskOrder
    \/ ExecuteTask
    \/ SequentialExecute
    \/ SequentialWait
    \/ \E task \in DOMAIN thread : TaskThread(task)
    \/ JoinThread
    \/ RunTaskOrderReturn
    \/ RunTaskStructureMatch
    \/ RunReport
    \/ Main

SpecEngine == InitEngine /\ [][NextEngine]_vars

\* ------------------------------------------------------------------------
\* Properties of the execution engine.

Started(i) == thread[i] # "unspawned"
Finished(i) == thread[i] \in {"true", "false", "panicked"}
Failed(i) == thread[i] \in {"false", "panicked"}
Ended == pc \in {"report", "main", "exited"}

OrderOf(i) == ordered_tasks[i].order

\* The largest order of the selected tasks, 0 when there is none.
DeepestOrder ==
    IF ordered_tasks = <<>> THEN 0
    ELSE CHOOSE k \in {OrderOf(i) : i \in DOMAIN ordered_tasks} :
            \A i \in DOMAIN ordered_tasks : OrderOf(i) <= k

\* C1: the orders are processed one by one downwards from the deepest, and
\* a task of order k is started only when every task of order k+1 has
\* finished.
C1_LevelsDescendWithBarrier ==
    /\ \A n \in DOMAIN levels : levels[n] = DeepestOrder - (n - 1)
    /\ \A i, j \in DOMAIN ordered_tasks :
        (OrderOf(j) = OrderOf(i) + 1 /\ Started(i)) => Finished(j)

C1_Witness ==
    \E i, j \in DOMAIN ordered_tasks :
        OrderOf(j) = OrderOf(i) + 1 /\ Started(i) /\ Finished(j)

\* C2: once run_task_order has returned Err for an order, no task of a
\* lower order is ever started and the run ends with FAILURE.
C2_FailedBatchEndsRun ==
    order_result = "Err" =>
        /\ \A i \in DOMAIN ordered_tasks : OrderOf(i) < order => ~Started(i)
        /\ Ended => task_exit = "FAILURE"

C2_Witness ==
    /\ order_result = "Err"
    /\ pc = "exited"
    /\ \E i \in DOMAIN ordered_tasks : OrderOf(i) < order

\* C3: when run_task_order has returned for a parallel batch, and when the
\* run reports its outcome, no task of the batch is still running.
C3_BatchResultAfterAllFinished ==
    (concurrency_mode = "Parallel" /\ (pc = "order_returned" \/ Ended)) =>
        \A n \in DOMAIN tasks : thread[tasks[n]] # "running"

\* C4: every task of a parallel batch is started, whatever became of the
\* tasks of the batch started before it.
C4_ParallelBatchStartsAll ==
    concurrency_mode = "Parallel" =>
        \A i \in DOMAIN ordered_tasks :
            (/\ \E n \in DOMAIN levels : levels[n] = OrderOf(i)
             /\ ~(OrderOf(i) = order /\ pc = "execute_task"))
            => Started(i)

C4_Witness ==
    /\ concurrency_mode = "Parallel"
    /\ pc = "join"
    /\ \E m, n \in DOMAIN tasks :
        m < n /\ Failed(tasks[m]) /\ thread[tasks[n]] = "running"

\* C5: in sequential mode a task of a batch is started only when every
\* task selected before it in the batch has finished with success, so the
\* tasks run one at a time and none is started after a failure.
C5_SequentialOneByOne ==
    concurrency_mode = "Sequential" =>
        /\ \A i, j \in DOMAIN ordered_tasks :
            (i < j /\ OrderOf(i) = OrderOf(j) /\ Started(j))
                => thread[i] = "true"
        /\ Cardinality({i \in DOMAIN ordered_tasks :
                            thread[i] = "running"}) <= 1

C5_Witness ==
    /\ concurrency_mode = "Sequential"
    /\ pc = "exited"
    /\ \E i, j \in DOMAIN ordered_tasks :
        i < j /\ OrderOf(i) = OrderOf(j) /\ Failed(i) /\ ~Started(j)

\* C6: the run reports SUCCESS exactly when every selected task was
\* started once and finished with success; a FAILURE is that of the first
\* batch with a failed task: every deeper task succeeded.
C6_SuccessIffAllSucceeded ==
    task_exit # "none" =>
        /\ task_exit = "SUCCESS" <=>
            \A i \in DOMAIN ordered_tasks : starts[i] = 1 /\ thread[i] = "true"
        /\ task_exit = "FAILURE" =>
            /\ \E i \in DOMAIN ordered_tasks :
                OrderOf(i) = Last(levels) /\ Failed(i)
            /\ \A i \in DOMAIN ordered_tasks :
                OrderOf(i) > Last(levels) => thread[i] = "true"

C6_Witness ==
    /\ task_exit = "SUCCESS"
    /\ \E i, j \in DOMAIN ordered_tasks : OrderOf(i) # OrderOf(j)

C8_ExitCodeZeroOnlyOnSuccess ==
    pc = "exited" =>
        (exit_code = 0 <=> (result = "Ok" /\ task_exit = "SUCCESS"))

\* The stages before the engine, computed again from the directory tree:
\* the entry resolves, every discovered configuration is read with valid
\* patterns and its tasks resolve, and the tree is built.
StagesCompleted ==
    /\ resolve_config_path(entry).status = "Ok"
    /\ found_config_paths # <<>>
    /\ path_stack = <<>>
    /\ \A i \in DOMAIN found_config_paths :
        LET file == read_config_file(found_config_paths[i])
        IN  /\ file.status = "Ok"
            /\ \A n \in DOMAIN file.value.directories :
                pattern_valid(file.value.directories[n])
            /\ parse_config_file(file.value).status = "Ok"
    /\ Len(configs) = Len(found_config_paths)
    /\ \E paths \in KeyOrders(configs) :
        LET structure == resolve_config_structure(entry_config_path, configs,
                                                  paths)
        IN  structure.status = "Ok" /\ structure.value = config_structure

\* C9: a task is started only after every stage before the engine has
\* completed without error, and a run in which a stage failed ends with no
\* task started.
C9_NoTaskBeforeStagesCompleted ==
    /\ (\E i \in DOMAIN starts : starts[i] > 0)
        => (failed_stage = "none" /\ StagesCompleted)
    /\ failed_stage # "none" =>
        (pc \in {"main", "exited"} /\ \A i \in DOMAIN starts : starts[i] = 0)

C9_Witness ==
    /\ failed_stage = "parse_config_files"
    /\ pc = "exited"
    /\ \E i \in DOMAIN config_files : config_files[i].tasks # EmptyTasks

\* ------------------------------------------------------------------------
\* Discovery on its own, on directory trees whose patterns also refer to
\* the parent directory.

DiscoverDirectoryChoices(dir) ==
    IF dir = <<"r">>
    THEN {<<>>, <<<<"*">>>>, <<<<"**">>>>, <<<<"a">>, <<"*">>>>,
          <<<<"a">>, <<"a", "c">>>>}
    ELSE IF dir = <<"r", "a">>
    THEN {<<>>, <<<<"*">>>>, <<<<"..">>>>, <<<<"**">>>>, <<<<"..", "b">>>>}
    ELSE {<<>>, <<<<"..">>>>}

DiscoverFileChoices(dir) ==
    {NoFile}
    \cup {ConfigFileOf(dir, d, FALSE, "none") :
            d \in DiscoverDirectoryChoices(dir)}
    \cup (IF dir = <<"r", "a">> THEN {Unreadable, Malformed} ELSE {})

NoManifest(dir) == {NoFile}

DiscoverEntryChoices == {<<"r">>, <<"r", "a">>, <<"r", "a", "rask.yaml">>,
                         <<"r", "a", "..">>, <<"x">>}

InitDiscover ==
    /\ fs \in FileSystems([d \in ConfigDirs |-> DiscoverFileChoices(d)])
    /\ manifest \in FileSystems([d \in ConfigDirs |-> NoManifest(d)])
    /\ entry \in DiscoverEntryChoices
    /\ concurrency_mode = "Parallel"
    /\ InitRun
    /\ ordered_tasks = <<>>
    /\ thread = <<>>
    /\ process = <<>>
    /\ starts = <<>>
    /\ pc = "resolve_config_path"

NextDiscover ==
    \/ ResolveConfigPath
    \/ DiscoverBegin
    \/ DiscoverLoop
    \/ DiscoverReturn

SpecDiscover == InitDiscover /\ [][NextDiscover]_vars

\* The file a path names.
FileOf(path) == canonicalize(path).path

\* C10: no configuration file is read twice by the loop of
\* discover_config_paths, and found_config_paths holds no configuration
\* file twice.
C10_NoConfigurationTwice ==
    /\ \A i, j \in DOMAIN read_log :
        i # j => FileOf(read_log[i]) # FileOf(read_log[j])
    /\ \A i, j \in DOMAIN found_config_paths :
        i # j => FileOf(found_config_paths[i]) # FileOf(found_config_paths[j])

\* The names a component of a path can have on the directory tree.
Components == {"r", "a", "b", "c", "..", DEFAULT_FILENAME}

\* The paths that can name a configuration file: the default file name
\* after at most MaxPathLen - 1 components that lead to a directory.
ConfigPathTexts ==
    {path \in UNION {[1..n -> Components] : n \in 1..MaxPathLen} :
        /\ Last(path) = DEFAULT_FILENAME
        /\ Walk(<<>>, Front(path)).ok
        /\ Walk(<<>>, Front(path)).path \in ConfigDirs}

\* C11: discover_config_paths terminates, patterns that lead back to an
\* ancestor or to the configuration's own directory included: no path is
\* popped from the stack twice and every path popped is one of the finitely
\* many that name a configuration, which bounds the iterations of the loop;
\* and it returns its paths with the stack empty.
C11_DiscoveryTerminates ==
    /\ \A i, j \in DOMAIN read_log : i # j => read_log[i] # read_log[j]
    /\ entry_config_path # NoPath =>
        Range(read_log) \cup Range(path_stack) \subseteq ConfigPathTexts
    /\ Len(read_log) <= Cardinality(ConfigPathTexts)
    /\ pc = "read_config_files" => path_stack = <<>>

\* Discovery returned its paths on a tree where a pattern led back to an
\* ancestor and a pattern of the ancestor to the configuration again.
C11_Witness ==
    /\ pc = "read_config_files"
    /\ path_stack = <<>>
    /\ \E i, j \in DOMAIN read_log :
        /\ i < j
        /\ ".." \in Range(read_log[j])
        /\ FileOf(read_log[i]) = FileOf(read_log[j])

\* C12: every path of found_config_paths is canonical, so that no two of
\* its paths name the same configuration file.
C12_DiscoveredPathsCanonical ==
    \A i \in DOMAIN found_config_paths :
        /\ found_config_paths[i] = FileOf(found_config_paths[i])
        /\ \A j \in DOMAIN found_config_paths :
            FileOf(found_config_paths[i]) = FileOf(found_config_paths[j])
                => i = j

\* The paths the patterns of the configuration at `path` match.
MatchesOf(path) ==
    LET file == read_config_file(path)
    IN  IF file.status # "Ok" THEN {}
        ELSE UNION {Range(glob(get_config_glob_pattern(Parent(path),
                                    file.value.directories[n])).value) :
                    n \in DOMAIN file.value.directories}

\* The least set of paths that holds `paths` and the matches of the patterns
\* of every configuration it holds.
RECURSIVE ReachableFrom(_)
ReachableFrom(paths) ==
    LET more == paths \cup UNION {MatchesOf(path) : path \in paths}
    IN  IF more = paths THEN paths ELSE ReachableFrom(more)

\* C13: when discover_config_paths returns its paths, they are the entry
\* path first, and as a set exactly the paths reachable from the entry by
\* the matches of the patterns, each once; the entry alone when no pattern
\* of it matches.
C13_DiscoveredIsReachable ==
    pc = "read_config_files" =>
        /\ found_config_paths[1] = entry_config_path
        /\ Range(found_config_paths) = ReachableFrom({entry_config_path})
        /\ \A i, j \in DOMAIN found_config_paths :
            found_config_paths[i] = found_config_paths[j] => i = j
        /\ MatchesOf(entry_config_path) \subseteq {entry_config_path}
            => found_config_paths = <<entry_config_path>>

\* Discovery returned a path that no pattern of the entry matches: it was
\* reached through a discovered configuration.
C13_Witness ==
    /\ pc = "read_config_files"
    /\ \E i \in DOMAIN found_config_paths :
        found_config_paths[i]
            \notin {entry_config_path} \cup MatchesOf(entry_config_path)

\* ------------------------------------------------------------------------
\* Properties of the selection of tasks.

\* The nodes of a structure tree, each as the sequence of child positions
\* that leads to it from the root: its length is the number of edges.
RECURSIVE NodePaths(_)
NodePaths(structure) ==
    {<<>>} \cup UNION {{<<i>> \o below :
                            below \in NodePaths(structure.children[i])} :
                       i \in DOMAIN structure.children}

RECURSIVE NodeAt(_, _)
NodeAt(structure, node) ==
    IF node = <<>> THEN structure
    ELSE NodeAt(structure.children[Head(node)], Tail(node))

\* resolve_task_order has returned the tasks of the tree that was built.
Selected ==
    /\ failed_stage = "none"
    /\ config_structure # NoStructure
    /\ pc \notin {"resolve_config_structure", "resolve_task_order"}

\* The task a node holds under the requested name, with the number of edges
\* from the root as its order.
SelectedTaskOf(node) ==
    LET config == NodeAt(config_structure, node).config
    IN  [task |-> [command |-> config.tasks[task_name].content,
                   directory |-> config.dir_path],
         order |-> Len(node)]

\* The nodes whose task set holds a task keyed by the requested name.
NodesWithTask ==
    {node \in NodePaths(config_structure) :
        task_name \in DOMAIN NodeAt(config_structure, node).config.tasks}

\* C14: the order of every task resolve_task_order returns is the number of
\* edges between the root and the node that holds it: the tasks of the list
\* are, one for one, the tasks of the nodes with their depths.
C14_OrderIsDepth ==
    Selected =>
        /\ \A node \in NodesWithTask :
            Contains(ordered_tasks, SelectedTaskOf(node))
        /\ \A i \in DOMAIN ordered_tasks :
            Cardinality({j \in DOMAIN ordered_tasks :
                            ordered_tasks[j] = ordered_tasks[i]})
            = Cardinality({node \in NodesWithTask :
                            SelectedTaskOf(node) = ordered_tasks[i]})

\* Tasks were selected from the root, a child and a grandchild.
C14_Witness ==
    /\ Selected
    /\ \E i, j, k \in DOMAIN ordered_tasks :
        /\ ordered_tasks[i].order = 0
        /\ ordered_tasks[j].order = 1
        /\ ordered_tasks[k].order = 2

\* ------------------------------------------------------------------------
\* The selection on its own: resolve_task_order on every structure tree
\* within the bounds, for several task names.

\* The task keys of the configurations and the names asked for.
TaskKeyOrder == <<"build", "build:dev", "test">>
TaskNames == {"build", "build:dev", "test", "lint", "b"}

\* The sets of task keys a configuration declares.
TaskKeyChoices == {{}, {"build"}, {"build", "build:dev"}, {"build:dev", "test"}}

\* The configuration of a directory that declares the shell tasks `keys`.
SelectConfig(dir, keys) ==
    [name |-> Last(dir), task_engine |-> "none",
     tasks |-> parse_config_tasks([key \in keys |-> <<"make ", key>>]).value,
     file_path |-> Append(dir, DEFAULT_FILENAME), dir_path |-> dir,
     directories |-> <<>>]

\* The trees: r alone, r over a, r over a and b, each with or without c
\* under a.
SubtreesOfA ==
    {[config |-> SelectConfig(<<"r", "a">>, keys), children |-> below] :
        keys \in TaskKeyChoices,
        below \in {<<>>} \cup
            {<<[config |-> SelectConfig(<<"r", "a", "c">>, k),
                children |-> <<>>]>> : k \in TaskKeyChoices}}

SubtreesOfB ==
    {[config |-> SelectConfig(<<"r", "b">>, keys), children |-> <<>>] :
        keys \in TaskKeyChoices}

StructureTrees ==
    {[config |-> SelectConfig(<<"r">>, keys), children |-> below] :
        keys \in TaskKeyChoices,
        below \in {<<>>} \cup {<<a>> : a \in SubtreesOfA}
                  \cup {<<a, b>> : a \in SubtreesOfA, b \in SubtreesOfB}}

\* The characters of a task key or task name.
Characters(name) ==
    CASE name = "build" -> <<"b", "u", "i", "l", "d">>
      [] name = "build:dev" -> <<"b", "u", "i", "l", "d", ":", "d", "e", "v">>
      [] name = "test" -> <<"t", "e", "s", "t">>
      [] name = "lint" -> <<"l", "i", "n", "t">>
      [] name = "b" -> <<"b">>

\* Whether `name` is a prefix of `key`.
starts_with(key, name) ==
    /\ Len(Characters(name)) <= Len(Characters(key))
    /\ \A n \in DOMAIN Characters(name) :
        Characters(key)[n] = Characters(name)[n]

\* Faulty variant of select_prefix: only the key equal to the name
\* qualifies.
RECURSIVE select_prefix_exact(_, _, _)
select_prefix_exact(structure, name, depth) ==
    LET keys == SelectSeq(TaskKeyOrder,
                    LAMBDA key : key \in DOMAIN structure.config.tasks
                                 /\ key = name)
    IN  [n \in DOMAIN keys |->
            [task |-> [command |-> structure.config.tasks[keys[n]].content,
                       directory |-> structure.config.dir_path],
             order |-> depth]]
        \o Concat([i \in DOMAIN structure.children |->
                select_prefix_exact(structure.children[i], name, depth + 1)])

\* Selection in prefix mode: depth first from the root, every task of a
\* node whose key begins with the name qualifies.
RECURSIVE select_prefix(_, _, _)
select_prefix(structure, name, depth) ==
    LET keys == SelectSeq(TaskKeyOrder,
                    LAMBDA key : key \in DOMAIN structure.config.tasks
                                 /\ starts_with(key, name))
    IN  [n \in DOMAIN keys |->
            [task |-> [command |-> structure.config.tasks[keys[n]].content,
                       directory |-> structure.config.dir_path],
             order |-> depth]]
        \o Concat([i \in DOMAIN structure.children |->
                select_prefix(structure.children[i], name, depth + 1)])

\* The selector in prefix mode.
SelectPrefix ==
    /\ pc = "resolve_task_order"
    /\ match_mode = "Prefix"
    /\ ordered_tasks' = select_prefix(config_structure, task_name, 0)
    /\ thread' = [i \in DOMAIN ordered_tasks' |-> "unspawned"]
    /\ process' = [i \in DOMAIN ordered_tasks' |-> "none"]
    /\ starts' = [i \in DOMAIN ordered_tasks' |-> 0]
    /\ pc' = "run_task_structure"
    /\ UNCHANGED <<world, entry_config_path, discovery, config_files, configs,
                   config_structure, highest_order, order, levels, tasks,
                   task_threads, joined, order_result, task_exit, result,
                   failed_stage, exit_code>>

InitSelect ==
    /\ fs = [d \in ConfigDirs |-> NoFile]
    /\ manifest = [d \in ConfigDirs |-> NoFile]
    /\ entry = <<"r">>
    /\ concurrency_mode = "Parallel"
    /\ task_name \in TaskNames
    /\ match_mode \in {"Exact", "Prefix"}
    /\ entry_config_path = <<"r", DEFAULT_FILENAME>>
    /\ found_config_paths = <<>>
    /\ path_stack = <<>>
    /\ read_log = <<>>
    /\ config_files = <<>>
    /\ configs = <<>>
    /\ config_structure \in StructureTrees
    /\ ordered_tasks = <<>>
    /\ highest_order = 0
    /\ order = 0
    /\ levels = <<>>
    /\ tasks = <<>>
    /\ task_threads = <<>>
    /\ joined = 0
    /\ thread = <<>>
    /\ process = <<>>
    /\ starts = <<>>
    /\ order_result = "none"
    /\ task_exit = "none"
    /\ result = "none"
    /\ failed_stage = "none"
    /\ exit_code = -1
    /\ InitOtherCommands
    /\ pc = "resolve_task_order"

NextSelect ==
    \/ ResolveTaskOrder
    \/ SelectPrefix
    \/ RunTaskStructure

SpecSelect == InitSelect /\ [][NextSelect]_vars

\* C15: under exact matching resolve_task_order returns one task for each
\* node that has a task keyed by the requested name and none for another
\* node; its command is the invocation of that task and its directory the
\* dir_path of the node.
C15_ExactSelectsKeyedTasks ==
    (Selected /\ match_mode = "Exact") =>
        /\ Len(ordered_tasks) = Cardinality(NodesWithTask)
        /\ \A node \in NodesWithTask :
            \E i \in DOMAIN ordered_tasks :
                ordered_tasks[i].task = SelectedTaskOf(node).task
        /\ \A i \in DOMAIN ordered_tasks :
            \E node \in NodePaths(config_structure) :
                LET config == NodeAt(config_structure, node).config
                IN  /\ task_name \in DOMAIN config.tasks
                    /\ ordered_tasks[i].task.directory = config.dir_path
                    /\ ordered_tasks[i].task.command
                        = config.tasks[task_name].content

\* A task was selected from one node and none from a node whose keys only
\* begin with the requested name.
C15_Witness ==
    /\ Selected
    /\ match_mode = "Exact"
    /\ task_name = "build"
    /\ ordered_tasks # <<>>
    /\ \E node \in NodePaths(config_structure) :
        DOMAIN NodeAt(config_structure, node).config.tasks
            = {"build:dev", "test"}

\* The tasks of the nodes whose keys begin with the requested name: the
\* key continues the name by some characters, or by none.
TasksBeginningWith ==
    {<<node, key>> \in NodePaths(config_structure) \X Range(TaskKeyOrder) :
        /\ key \in DOMAIN NodeAt(config_structure, node).config.tasks
        /\ \E n \in 0..Len(Characters(key)) :
            SubSeq(Characters(key), 1, n) = Characters(task_name)}

\* C16: under prefix matching the tasks selected are the tasks of all nodes
\* whose key begins with the requested name, one for one, each with its
\* invocation, the dir_path of its node and the depth of its node.
C16_PrefixSelectsKeysBeginning ==
    (Selected /\ match_mode = "Prefix") =>
        /\ Len(ordered_tasks) = Cardinality(TasksBeginningWith)
        /\ \A pair \in TasksBeginningWith :
            LET config == NodeAt(config_structure, pair[1]).config
            IN  Contains(ordered_tasks,
                    [task |-> [command |-> config.tasks[pair[2]].content,
                               directory |-> config.dir_path],
                     order |-> Len(pair[1])])

\* Asked for build, the tasks build and build:dev of one node were selected
\* and its task test was not.
C16_Witness ==
    /\ Selected
    /\ match_mode = "Prefix"
    /\ task_name = "build"
    /\ \E i, j \in DOMAIN ordered_tasks :
        /\ i # j
        /\ ordered_tasks[i].task.directory = ordered_tasks[j].task.directory
    /\ \E node \in NodePaths(config_structure) :
        /\ "test" \in DOMAIN NodeAt(config_structure, node).config.tasks
        /\ \A i \in DOMAIN ordered_tasks :
            ordered_tasks[i].task.command # <<"make ", "test">>

\* C17: when no node of the tree has a task keyed by the requested name,
\* the selection is the empty list and no error, no process is started, and
\* the run ends with SUCCESS.
C17_EmptySelectionSucceeds ==
    (Selected /\ NodesWithTask = {}) =>
        /\ ordered_tasks = <<>>
        /\ starts = <<>>
        /\ failed_stage = "none"
        /\ order_result # "Err"
        /\ Ended => (task_exit = "SUCCESS" /\ result # "Err")

\* A run over a tree of several configurations, none with the task, has
\* ended.
C17_Witness ==
    /\ Selected
    /\ NodesWithTask = {}
    /\ Cardinality(NodePaths(config_structure)) > 1
    /\ pc = "exited"
    /\ task_exit = "SUCCESS"

\* ------------------------------------------------------------------------
\* Properties of the resolution of the entry.

\* What the entry names on the directory tree.
EntryTarget == canonicalize(entry)

EntryIsMissing == ~EntryTarget.ok

EntryIsDirectory == EntryTarget.ok /\ EntryTarget.path \in Directories

EntryHoldsDefaultFile ==
    EntryIsDirectory /\ DEFAULT_FILENAME \in FilesOf(EntryTarget.path)

\* C18: once the entry has been resolved: an entry that does not exist, or
\* a directory without the default file, is an error of that stage, with
\* nothing discovered, read or started; a directory with the default file
\* gives the path of that file; a file gives its own path.
C18_EntryResolution ==
    pc # "resolve_config_path" =>
        /\ (EntryIsMissing \/ (EntryIsDirectory /\ ~EntryHoldsDefaultFile))
            => /\ failed_stage = "resolve_config_path"
               /\ result = "Err"
               /\ found_config_paths = <<>>
               /\ read_log = <<>>
               /\ ordered_tasks = <<>>
               /\ starts = <<>>
        /\ EntryHoldsDefaultFile
            => /\ failed_stage # "resolve_config_path"
               /\ entry_config_path
                    = Append(EntryTarget.path, DEFAULT_FILENAME)
        /\ (~EntryIsMissing /\ ~EntryIsDirectory)
            => /\ failed_stage # "resolve_config_path"
               /\ entry_config_path = EntryTarget.path

\* The run of an entry that is a directory without the default file ended.
C18_Witness ==
    /\ pc = "exited"
    /\ EntryIsDirectory
    /\ ~EntryHoldsDefaultFile
    /\ failed_stage = "resolve_config_path"

\* ------------------------------------------------------------------------
\* Properties of the resolved tasks.

\* The scripts package.json declares in the directory of a configuration.
ScriptsOf(config) == file_at(Append(config.dir_path, "package.json")).scripts

\* The tasks the configuration file of a configuration declares.
DeclaredTasksOf(config) == file_at(config.file_path).tasks

\* C19: a configuration whose task engine is npm or yarn has one task for
\* each script of the manifest, keyed by the name of the script, with the
\* invocation "<engine> run <script>" and nothing more; a configuration of
\* shell tasks has its declared tasks with their commands as declared.
C19_ResolvedInvocations ==
    \A i \in DOMAIN configs :
        LET config == configs[i]
        IN  IF config.task_engine \in {"npm", "yarn"}
            THEN /\ DOMAIN config.tasks = ScriptsOf(config)
                 /\ \A key \in DOMAIN config.tasks :
                        config.tasks[key].content
                            = <<config.task_engine, " run ", key>>
            ELSE /\ DOMAIN config.tasks = DOMAIN DeclaredTasksOf(config)
                 /\ \A key \in DOMAIN config.tasks :
                        config.tasks[key].content
                            = DeclaredTasksOf(config)[key]

\* ------------------------------------------------------------------------
\* The task engine auto.  parse_config_file of run.rs and config.rs has no
\* such engine; TaskEngine of utils/file.rs declares it as the default.  It
\* is taken from the description of the resolver: the explicit tasks, then
\* the tasks of every manifest present in the directory, a lockfile next to
\* package.json choosing yarn over npm.  Here manifest holds, for the
\* directory of the configuration, what is in it besides the configuration:
\* package.json, the lockfile and composer.json.

AutoDirectory == <<"r">>

\* TaskEngine::default() of utils/file.rs: a file that sets no task engine
\* has the engine auto.
default_task_engine(value) == IF value = "unset" THEN "auto" ELSE value

ExplicitTaskChoices ==
    {EmptyTasks,
     [key \in {"test"} |-> <<"jest">>],
     [key \in {"build"} |-> ShellCommand],
     [key \in {"build", "test"} |-> ShellCommand]}

ScriptChoices ==
    {NoFile, [content |-> "ok", scripts |-> {"test"}],
     [content |-> "ok", scripts |-> {"test", "lint"}]}

\* The tasks of one source, each script with its invocation.
script_tasks(file, prefix) ==
    IF file = NoFile THEN EmptyTasks
    ELSE [key \in file.scripts |->
            [task_type |-> "SHELL", content |-> <<prefix, " run ", key>>]]

\* The tasks of `more` merged into `base`: for a key of both, that of more.
merge_tasks(base, more) ==
    [key \in DOMAIN base \cup DOMAIN more |->
        IF key \in DOMAIN more THEN more[key] ELSE base[key]]

\* Faulty variant of parse_auto_tasks: the manifests are not looked at.
parse_auto_tasks_explicit_only(config_file, present, precedence) ==
    parse_config_tasks(config_file.tasks).value

\* The tasks of a configuration with the engine auto.  `present` is what the
\* directory holds; `precedence` is the order in which the sources are
\* merged, which decides the task of a key that two sources declare.
parse_auto_tasks(config_file, present, precedence) ==
    LET source == [explicit |-> parse_config_tasks(config_file.tasks).value,
                   composer |-> script_tasks(present.composer, "composer"),
                   node |-> script_tasks(present.node,
                                IF present.lockfile THEN "yarn" ELSE "npm")]
    IN  merge_tasks(merge_tasks(source[precedence[1]], source[precedence[2]]),
                    source[precedence[3]])

Precedences ==
    {sources \in [1..3 -> {"explicit", "composer", "node"}] :
        \A i, j \in 1..3 : sources[i] = sources[j] => i = j}

\* parse_config_files for configurations with the engine auto.
ParseAutoConfigFiles ==
    /\ pc = "parse_config_files"
    /\ \A i \in DOMAIN config_files :
        default_task_engine(config_files[i].task_engine) = "auto"
    /\ \E precedence \in Precedences :
        configs' = [i \in DOMAIN config_files |->
            [name |-> config_files[i].name,
             task_engine |-> default_task_engine(config_files[i].task_engine),
             tasks |-> parse_auto_tasks(config_files[i],
                            manifest[config_files[i].dir_path], precedence),
             file_path |-> config_files[i].file_path,
             dir_path |-> config_files[i].dir_path,
             directories |-> config_files[i].directories]]
    /\ pc' = "resolve_config_structure"
    /\ UNCHANGED <<world, entry_config_path, discovery, config_files,
                   config_structure, ordered_tasks, engine, result,
                   failed_stage, exit_code>>

InitResolve ==
    /\ \E engine_set \in {"unset", "auto"}, declared \in ExplicitTaskChoices :
        fs = [d \in ConfigDirs |->
                IF d = AutoDirectory
                THEN [content |-> "ok", name |-> "r",
                      task_engine |-> engine_set, directories |-> <<>>,
                      tasks |-> declared]
                ELSE NoFile]
    /\ \E node \in ScriptChoices, composer \in ScriptChoices,
          lockfile \in BOOLEAN :
        manifest = [d \in ConfigDirs |->
                IF d = AutoDirectory
                THEN [node |-> node, lockfile |-> lockfile,
                      composer |-> composer]
                ELSE NoFile]
    /\ entry = AutoDirectory
    /\ concurrency_mode = "Parallel"
    /\ task_name = "test"
    /\ match_mode = "Exact"
    /\ entry_config_path = Append(AutoDirectory, DEFAULT_FILENAME)
    /\ found_config_paths = <<entry_config_path>>
    /\ path_stack = <<>>
    /\ read_log = <<entry_config_path>>
    /\ config_files = <<[name |-> fs[AutoDirectory].name,
                         task_engine |-> fs[AutoDirectory].task_engine,
                         directories |-> fs[AutoDirectory].directories,
                         tasks |-> fs[AutoDirectory].tasks,
                         file_path |-> entry_config_path,
                         dir_path |-> AutoDirectory]>>
    /\ configs = <<>>
    /\ config_structure = NoStructure
    /\ ordered_tasks = <<>>
    /\ highest_order = 0
    /\ order = 0
    /\ levels = <<>>
    /\ tasks = <<>>
    /\ task_threads = <<>>
    /\ joined = 0
    /\ thread = <<>>
    /\ process = <<>>
    /\ starts = <<>>
    /\ order_result = "none"
    /\ task_exit = "none"
    /\ result = "none"
    /\ failed_stage = "none"
    /\ exit_code = -1
    /\ InitOtherCommands
    /\ pc = "parse_config_files"

NextResolve ==
    \/ ParseAutoConfigFiles
    \/ ResolveConfigStructure
    \/ ResolveTaskOrder

SpecResolve == InitResolve /\ [][NextResolve]_vars

\* The invocations the sources present in a directory give for a key.
InvocationsFor(config, key) ==
    LET present == manifest[config.dir_path]
        declared == fs[config.dir_path].tasks
    IN  (IF key \in DOMAIN declared THEN {declared[key]} ELSE {})
        \cup (IF present.node # NoFile /\ key \in present.node.scripts
              THEN {<<IF present.lockfile THEN "yarn" ELSE "npm",
                      " run ", key>>}
              ELSE {})
        \cup (IF present.composer # NoFile /\ key \in present.composer.scripts
              THEN {<<"composer", " run ", key>>}
              ELSE {})

PlainUnsafe == {"", "true", "false", "null", "~"}

\* serialize_str.
scalar(str) ==
    [style |-> IF str \in PlainUnsafe THEN "single-quoted" ELSE "plain",
     text |-> str]

\* Deserializing a String: the text of the scalar, whatever its style.
scalar_string(value) == value.text

is_default_task_engine(value) == value = "auto"

skip_path(path) == path = <<>>

\* serde_yaml::to_string of a ConfigFile: the fields in the order of the
\* struct, without those their skip_serializing_if leaves out.
to_string(config_file) ==
    <<[key |-> "name", value |-> scalar(config_file.name)]>>
    \o (IF is_default_task_engine(config_file.task_engine) THEN <<>>
        ELSE <<[key |-> "task_engine",
                value |-> scalar(config_file.task_engine)]>>)
    \o (IF config_file.directories = <<>> THEN <<>>
        ELSE <<[key |-> "directories", value |-> config_file.directories]>>)
    \o (IF DOMAIN config_file.tasks = {} THEN <<>>
        ELSE <<[key |-> "tasks", value |-> config_file.tasks]>>)
    \o (IF skip_path(config_file.file_path) THEN <<>>
        ELSE <<[key |-> "__file_path", value |-> config_file.file_path]>>)
    \o (IF skip_path(config_file.dir_path) THEN <<>>
        ELSE <<[key |-> "__dir_path", value |-> config_file.dir_path]>>)

HasKey(document, key) == \E i \in DOMAIN document : document[i].key = key

ValueOf(document, key) ==
    document[CHOOSE i \in DOMAIN document : document[i].key = key].value

\* Faulty variant of from_str: a document without task_engine is read with
\* the default of the loader of run.rs, none.
from_str_default_none(document) ==
    IF ~HasKey(document, "name") THEN [status |-> "Err", value |-> NoFile]
    ELSE [status |-> "Ok",
          value |-> [name |-> scalar_string(ValueOf(document, "name")),
                     task_engine |->
                        IF HasKey(document, "task_engine")
                        THEN scalar_string(ValueOf(document, "task_engine"))
                        ELSE "none",
                     directories |->
                        IF HasKey(document, "directories")
                        THEN ValueOf(document, "directories") ELSE <<>>,
                     tasks |->
                        IF HasKey(document, "tasks")
                        THEN ValueOf(document, "tasks") ELSE EmptyTasks,
                     file_path |->
                        IF HasKey(document, "__file_path")
                        THEN ValueOf(document, "__file_path") ELSE <<>>,
                     dir_path |->
                        IF HasKey(document, "__dir_path")
                        THEN ValueOf(document, "__dir_path") ELSE <<>>]]

\* serde_yaml::from_str::<ConfigFile>: name is required, every other field
\* takes its default when the document does not have it.
from_str(document) ==
    IF ~HasKey(document, "name") THEN [status |-> "Err", value |-> NoFile]
    ELSE [status |-> "Ok",
          value |-> [name |-> scalar_string(ValueOf(document, "name")),
                     task_engine |->
                        IF HasKey(document, "task_engine")
                        THEN scalar_string(ValueOf(document, "task_engine"))
                        ELSE "auto",
                     directories |->
                        IF HasKey(document, "directories")
                        THEN ValueOf(document, "directories") ELSE <<>>,
                     tasks |->
                        IF HasKey(document, "tasks")
                        THEN ValueOf(document, "tasks") ELSE EmptyTasks,
                     file_path |->
                        IF HasKey(document, "__file_path")
                        THEN ValueOf(document, "__file_path") ELSE <<>>,
                     dir_path |->
                        IF HasKey(document, "__dir_path")
                        THEN ValueOf(document, "__dir_path") ELSE <<>>]]

\* A file that holds a YAML document.
YamlFile(document) == [content |-> "yaml", document |-> document]

\* read_yaml_file of file.rs: an unreadable file and a file that is not a
\* configuration are both an Err.
read_yaml_file(file_path) ==
    LET content == read_file_content(file_path)
    IN  IF content.status = "Err" THEN content
        ELSE IF content.value.content # "yaml"
        THEN [status |-> "Err", value |-> NoFile]
        ELSE from_str(content.value.document)

\* read_config_file of file.rs: the record of the document with the path it
\* was read from.
file_read_config_file(config_file_path) ==
    LET config_file == read_yaml_file(config_file_path)
    IN  IF config_file.status # "Ok" THEN config_file
        ELSE [status |-> "Ok",
              value |-> [config_file.value EXCEPT
                            !.file_path = config_file_path,
                            !.dir_path = Parent(config_file_path)]]

\* write_file_content: fs::write creates the file or replaces what it
\* holds; it fails when the directory cannot be written.
write_file_content(file_path, content, writable) ==
    IF writable /\ Parent(file_path) \in ConfigDirs
    THEN [status |-> "Ok",
          fs |-> [fs EXCEPT ![Parent(file_path)] = YamlFile(content)]]
    ELSE [status |-> "Err", fs |-> fs]

\* write_config_file, through write_yaml_file.
write_config_file(config_file_path, config_file, writable) ==
    write_file_content(config_file_path, to_string(config_file), writable)

\* parse_path_string: the canonical path, Err when there is none.
parse_path_string(path) ==
    IF exists(path) THEN [status |-> "Ok", value |-> canonicalize(path).path]
    ELSE [status |-> "Err", value |-> NoPath]

\* The ConfigFile init builds.
NewConfigFile(config_name) ==
    [name |-> config_name, task_engine |-> "auto", directories |-> <<>>,
     tasks |-> EmptyTasks, file_path |-> <<>>, dir_path |-> <<>>]

\* Faulty variant of init_execute: the file is written whether or not there
\* is one.
init_execute_overwriting(target, name, writable) ==
    LET parsed == parse_path_string(target)
        path == IF is_dir(parsed.value)
                THEN Append(parsed.value, DEFAULT_FILENAME)
                ELSE parsed.value
        written == write_config_file(path,
                        NewConfigFile(IF name = "" THEN Last(Parent(path))
                                      ELSE name),
                        writable)
    IN  IF parsed.status = "Err"
        THEN [status |-> "Err", path |-> NoPath, fs |-> fs]
        ELSE IF name = "" /\ Parent(path) = <<>>
        THEN [status |-> "panic", path |-> path, fs |-> fs]
        ELSE [status |-> written.status, path |-> path, fs |-> written.fs]

\* execute of init.rs: the entry resolved, the default file name pushed on
\* a directory, Err when the path exists, else the new file written.  The
\* name defaults to the name of the directory; the root has none and
\* unwrap() panics.
init_execute(target, name, writable) ==
    LET parsed == parse_path_string(target)
        path == IF is_dir(parsed.value)
                THEN Append(parsed.value, DEFAULT_FILENAME)
                ELSE parsed.value
        written == write_config_file(path,
                        NewConfigFile(IF name = "" THEN Last(Parent(path))
                                      ELSE name),
                        writable)
    IN  IF parsed.status = "Err"
        THEN [status |-> "Err", path |-> NoPath, fs |-> fs]
        ELSE IF exists(path)
        THEN [status |-> "Err", path |-> path, fs |-> fs]
        ELSE IF name = "" /\ Parent(path) = <<>>
        THEN [status |-> "panic", path |-> path, fs |-> fs]
        ELSE [status |-> written.status, path |-> path, fs |-> written.fs]

\* `rask init`: execute of init.rs as one step.  Whether the directory can
\* be written is for the operating system to say.
InitExecute ==
    /\ pc = "init_execute"
    /\ \E writable \in BOOLEAN :
        \E executed \in {init_execute(entry, name_argument, writable)} :
            /\ fs' = executed.fs
            /\ init_path' = executed.path
            /\ IF executed.status = "Ok"
               THEN /\ pc' = "main"
                    /\ result' = "Ok"
                    /\ UNCHANGED <<failed_stage, exit_code>>
               ELSE Outcome(executed.status, "init_execute", "main")
    /\ UNCHANGED <<manifest, entry, task_name, concurrency_mode, match_mode,
                   name_argument, reloaded, listed, pattern_root,
                   pattern_directory, pattern_result, entry_config_path,
                   discovery, loaded, engine>>

\* The file init was about is loaded by a later command, with
\* read_config_file of file.rs.
FileReadConfigFile ==
    /\ pc = "exited"
    /\ init_path # NoPath
    /\ reloaded = NotRead
    /\ reloaded' = file_read_config_file(init_path)
    /\ UNCHANGED <<fs, manifest, entry, task_name, concurrency_mode,
                   match_mode, name_argument, init_path, listed, pattern_root,
                   pattern_directory, pattern_result, pc, entry_config_path,
                   discovery, loaded, engine, result, failed_stage, exit_code>>

\* The configuration files `init` may find: none, one that cannot be read,
\* one a user wrote.
InitFileChoices(dir) ==
    {NoFile, Unreadable,
     YamlFile(to_string([name |-> Last(dir), task_engine |-> "npm",
                         directories |-> <<<<"*">>>>, tasks |-> EmptyTasks,
                         file_path |-> <<>>, dir_path |-> <<>>]))}

InitEntryChoices == {<<"r">>, <<"r", "a">>, <<"r", "a", "c">>,
                     <<"r", "rask.yaml">>, <<"r", "a", "..">>, <<"r", "..">>,
                     <<"x">>}

NameChoices == {"", "app", "true"}

InitInit ==
    /\ fs \in FileSystems([d \in ConfigDirs |-> InitFileChoices(d)])
    /\ manifest \in FileSystems([d \in ConfigDirs |-> NoManifest(d)])
    /\ entry \in InitEntryChoices
    /\ name_argument \in NameChoices
    /\ init_path = NoPath
    /\ reloaded = NotRead
    /\ listed = <<>>
    /\ pattern_root = NoPath
    /\ pattern_directory = <<>>
    /\ pattern_result = NoPath
    /\ task_name = ""
    /\ concurrency_mode = "Parallel"
    /\ match_mode = "Exact"
    /\ InitStages
    /\ ordered_tasks = <<>>
    /\ thread = <<>>
    /\ process = <<>>
    /\ starts = <<>>
    /\ pc = "init_execute"

NextInit ==
    \/ InitExecute
    \/ Main
    \/ FileReadConfigFile

SpecInit == InitInit /\ [][NextInit]_vars

\* init has written the file at init_path and the file was read back.
WrittenAndReloaded ==
    /\ failed_stage = "none"
    /\ result = "Ok"
    /\ init_path # NoPath
    /\ reloaded # NotRead

\* The name init gave the record it wrote.
WrittenName ==
    IF name_argument = "" THEN Last(Parent(init_path)) ELSE name_argument

\* C21: a record with a name, no directories, no tasks and the default task
\* engine, written by write_config_file and read back by read_config_file,
\* is read with the same name, no directories, no tasks and the default
\* task engine.
C21_WriteReadRoundTrip ==
    WrittenAndReloaded =>
        /\ reloaded.status = "Ok"
        /\ reloaded.value.name = WrittenName
        /\ reloaded.value.task_engine = "auto"
        /\ reloaded.value.directories = <<>>
        /\ reloaded.value.tasks = EmptyTasks

\* A record whose name a plain scalar would not give back was written and
\* read.
C21_Witness ==
    /\ WrittenAndReloaded
    /\ reloaded.status = "Ok"
    /\ reloaded.value.name = "true"
    /\ fs[Parent(init_path)].document[1].value.style = "single-quoted"

\* The path init is about: the entry, or the default file of the directory
\* the entry names.
InitTarget ==
    IF canonicalize(entry).path \in Directories
    THEN Append(canonicalize(entry).path, DEFAULT_FILENAME)
    ELSE canonicalize(entry).path

\* There is a file at the path init is about.
TargetExists == canonicalize(entry).ok /\ canonicalize(InitTarget).ok

\* C28: init never overwrites a configuration: when the file it is about
\* exists it returns an error and no file changes, and the only files it
\* changes are files that did not exist.
C28_InitNeverOverwrites ==
    [][pc = "init_execute" =>
        /\ TargetExists => (result' = "Err" /\ fs' = fs)
        /\ \A d \in ConfigDirs : fs'[d] # fs[d] => fs[d] = NoFile]_vars

\* init returned an error for a directory that holds a configuration, which
\* is as it was written by its user.
C28_Witness ==
    /\ failed_stage = "init_execute"
    /\ result = "Err"
    /\ entry = <<"r", "a">>
    /\ init_path = <<"r", "a", DEFAULT_FILENAME>>
    /\ fs[<<"r", "a">>] \in InitFileChoices(<<"r", "a">>) \ {NoFile, Unreadable}

\* ------------------------------------------------------------------------
\* The command `list` (list.rs): the task names of the configurations that
\* parse_config_files returned.

\* The keys of the tasks of a configuration in the order the loop over
\* config.tasks meets them: the order of the file or its reverse.
task_keys(config, reversed) ==
    LET keys == SelectSeq(TaskKeyOrder, LAMBDA key : key \in DOMAIN config.tasks)
    IN  IF reversed THEN Reverse(keys) ELSE keys

\* Faulty variant of push_keys: a key is pushed whether or not the list
\* holds it.
RECURSIVE push_keys_unchecked(_, _)
push_keys_unchecked(list, keys) ==
    IF keys = <<>> THEN list
    ELSE push_keys_unchecked(Append(list, Head(keys)), Tail(keys))

\* The inner loop of get_config_tasks: a key is pushed unless the list
\* contains it.
RECURSIVE push_keys(_, _)
push_keys(list, keys) ==
    IF keys = <<>> THEN list
    ELSE push_keys(IF Contains(list, Head(keys)) THEN list
                   ELSE Append(list, Head(keys)),
                   Tail(keys))

\* get_config_tasks: the loop over the configurations, in their order.
RECURSIVE get_config_tasks(_, _)
get_config_tasks(config_list, reversed) ==
    IF config_list = <<>> THEN <<>>
    ELSE push_keys(get_config_tasks(Front(config_list), reversed),
                   task_keys(Last(config_list), reversed[Len(config_list)]))

\* execute of list.rs, after parse_config_files: the names are collected
\* and printed, and Ok is returned.
GetConfigTasks ==
    /\ pc = "get_config_tasks"
    /\ \E reversed \in [DOMAIN configs -> BOOLEAN] :
        listed' = get_config_tasks(configs, reversed)
    /\ pc' = "main"
    /\ result' = "Ok"
    /\ UNCHANGED <<fs, manifest, entry, task_name, concurrency_mode,
                   match_mode, name_argument, init_path, reloaded,
                   pattern_root, pattern_directory, pattern_result,
                   entry_config_path, discovery, loaded, engine,
                   failed_stage, exit_code>>

\* The configurations discovery found under r, in the order it found them,
\* each with the tasks it declares.
ListedDirectories ==
    {<<<<"r">>>>, <<<<"r">>, <<"r", "a">>>>,
     <<<<"r">>, <<"r", "a">>, <<"r", "b">>>>,
     <<<<"r">>, <<"r", "b">>, <<"r", "a">>, <<"r", "a", "c">>>>}

ConfigLists ==
    UNION {{[i \in DOMAIN dirs |-> SelectConfig(dirs[i], keys[i])] :
                keys \in [DOMAIN dirs -> TaskKeyChoices]} :
           dirs \in ListedDirectories}

InitList ==
    /\ fs = [d \in ConfigDirs |-> NoFile]
    /\ manifest = [d \in ConfigDirs |-> NoFile]
    /\ entry = <<"r">>
    /\ task_name = ""
    /\ concurrency_mode = "Parallel"
    /\ match_mode = "Exact"
    /\ InitOtherCommands
    /\ entry_config_path = <<"r", DEFAULT_FILENAME>>
    /\ configs \in ConfigLists
    /\ found_config_paths = [i \in DOMAIN configs |-> configs[i].file_path]
    /\ path_stack = <<>>
    /\ read_log = <<>>
    /\ config_files = <<>>
    /\ config_structure = NoStructure
    /\ ordered_tasks = <<>>
    /\ highest_order = 0
    /\ order = 0
    /\ levels = <<>>
    /\ tasks = <<>>
    /\ task_threads = <<>>
    /\ joined = 0
    /\ thread = <<>>
    /\ process = <<>>
    /\ starts = <<>>
    /\ order_result = "none"
    /\ task_exit = "none"
    /\ result = "none"
    /\ failed_stage = "none"
    /\ exit_code = -1
    /\ pc = "get_config_tasks"

NextList ==
    \/ GetConfigTasks
    \/ Main

SpecList == InitList /\ [][NextList]_vars

\* The task keys of all the configurations.
DeclaredKeys == UNION {DOMAIN configs[i].tasks : i \in DOMAIN configs}

\* C22: the listing holds every task key of every configuration, and holds
\* each name once, also when several configurations declare it.
C22_ListingHasEachNameOnce ==
    pc \in {"main", "exited"} =>
        /\ Range(listed) = DeclaredKeys
        /\ \A i, j \in DOMAIN listed : i # j => listed[i] # listed[j]

\* Three configurations declare `build:dev`, which is listed once among
\* other names.
C22_Witness ==
    /\ pc = "exited"
    /\ Cardinality({i \in DOMAIN configs :
                        "build:dev" \in DOMAIN configs[i].tasks}) >= 3
    /\ Cardinality({i \in DOMAIN listed : listed[i] = "build:dev"}) = 1
    /\ Len(listed) = 3

\* ------------------------------------------------------------------------
\* The structure tree against the discovered paths.

\* C23: structure building terminates: when a pattern of a configuration
\* matches a path the recursion is already inside of, construction returns
\* an error; the recursion never goes on without bound, which would end the
\* process by overflowing its stack.
C23_StructureBuildingTerminates ==
    failed_stage = "resolve_config_structure" => result = "Err"

\* C24: the structure builder is deterministic: every build from the
\* configurations that were parsed gives the same tree, the children of
\* every node in the same sequence, whatever the order in which the path
\* map iterates its keys.
C24_StructureBuilderDeterministic ==
    pc = "resolve_config_structure" =>
        \A first, second \in KeyOrders(configs) :
            resolve_config_structure(entry_config_path, configs, first)
            = resolve_config_structure(entry_config_path, configs, second)

\* ------------------------------------------------------------------------
\* get_config_glob_pattern on its own, on patterns that name files.

PatternChoices ==
    {<<>>, <<"a">>, <<"*">>, <<"**">>, <<"a", "*">>, <<"a", "c">>, <<"..">>,
     <<"..", "b">>, <<"custom.yaml">>, <<"a", "custom.yaml">>,
     <<"rask.yaml">>, <<"a", "rask.yaml">>, <<"*.yaml">>, <<".yaml">>,
     <<"a", ".yaml">>, <<"/", "r", "b">>, <<"/", "r", "custom.yaml">>}

InitPattern ==
    /\ fs = [d \in ConfigDirs |-> NoFile]
    /\ manifest = [d \in ConfigDirs |-> NoFile]
    /\ entry = <<"r">>
    /\ task_name = ""
    /\ concurrency_mode = "Parallel"
    /\ match_mode = "Exact"
    /\ name_argument = ""
    /\ init_path = NoPath
    /\ reloaded = NotRead
    /\ listed = <<>>
    /\ pattern_root \in ConfigDirs
    /\ pattern_directory \in PatternChoices
    /\ pattern_result = NoPath
    /\ InitStages
    /\ ordered_tasks = <<>>
    /\ thread = <<>>
    /\ process = <<>>
    /\ starts = <<>>
    /\ pc = "get_config_glob_pattern"

\* A call of get_config_glob_pattern, as discover_config_paths and
\* construct_config_structure make for each directory of a configuration.
GetConfigGlobPattern ==
    /\ pc = "get_config_glob_pattern"
    /\ pattern_result' = get_config_glob_pattern(pattern_root,
                                                 pattern_directory)
    /\ pc' = "returned"
    /\ UNCHANGED <<fs, manifest, entry, task_name, concurrency_mode,
                   match_mode, name_argument, init_path, reloaded, listed,
                   pattern_root, pattern_directory, entry_config_path,
                   discovery, loaded, engine, result, failed_stage,
                   exit_code>>

NextPattern == GetConfigGlobPattern

SpecPattern == InitPattern /\ [][NextPattern]_vars

\* Path::extension of a file name: what follows its last dot, nothing for a
\* name without a dot or with its only dot in front.
extension(file_name) ==
    IF file_name \in {"custom.yaml", "rask.yaml", "*.yaml"} THEN "yaml"
    ELSE ""

\* C25: get_config_glob_pattern joins the pattern to the directory and
\* appends the default file name exactly when the joined pattern does not
\* end in a file name with the extension yaml; a pattern that ends in such
\* a name is returned as joined.
C25_DefaultFilenameUnlessYaml ==
    pc = "returned" =>
        LET whole == push(pattern_root, pattern_directory)
        IN  pattern_result =
                IF whole # <<>> /\ extension(Last(whole)) = "yaml"
                THEN whole
                ELSE Append(whole, DEFAULT_FILENAME)

\* The configuration file of a node of the tree that was built.
NodeFile(node) == NodeAt(config_structure, node).config.file_path

\* C26: no configuration is at two nodes of the structure tree, so the
\* requested task of a configuration is selected at most once.
C26_NoConfigurationTwiceInTree ==
    /\ config_structure # NoStructure =>
        \A first, second \in NodePaths(config_structure) :
            first # second => NodeFile(first) # NodeFile(second)
    /\ \A i, k \in DOMAIN ordered_tasks :
        i # k => ordered_tasks[i].task.directory
                    # ordered_tasks[k].task.directory

\* ------------------------------------------------------------------------
\* `run` from the entry to the ordered tasks, on the directory trees of the
\* discovery, whose patterns also refer to the parent directory; every
\* configuration declares the requested task.

StructureFileChoices(dir) ==
    {NoFile}
    \cup {ConfigFileOf(dir, d, TRUE, "none") :
            d \in DiscoverDirectoryChoices(dir)}

InitStructure ==
    /\ fs \in FileSystems([d \in ConfigDirs |-> StructureFileChoices(d)])
    /\ manifest \in FileSystems([d \in ConfigDirs |-> NoManifest(d)])
    /\ entry \in DiscoverEntryChoices
    /\ concurrency_mode = "Parallel"
    /\ InitRun
    /\ ordered_tasks = <<>>
    /\ thread = <<>>
    /\ process = <<>>
    /\ starts = <<>>
    /\ pc = "resolve_config_path"

NextStructure ==
    \/ ResolveConfigPath
    \/ DiscoverBegin
    \/ DiscoverLoop
    \/ DiscoverReturn
    \/ ReadConfigFiles
    \/ ParseConfigFiles
    \/ ResolveConfigStructure
    \/ ResolveTaskOrder

SpecStructure == InitStructure /\ [][NextStructure]_vars

\* The paths of the nodes of the tree that was built.
NodeFiles == {NodeFile(node) : node \in NodePaths(config_structure)}

\* C27: the nodes of the structure tree are the discovered paths: every
\* path discovery returned is the root or a descendant, the tree holds no
\* other path, and the requested task of every discovered configuration
\* that declares it is selected.
C27_TreeNodesAreDiscovered ==
    /\ config_structure # NoStructure =>
        NodeFiles = Range(found_config_paths)
    /\ Selected =>
        \A i \in DOMAIN configs :
            task_name \in DOMAIN configs[i].tasks =>
                \E k \in DOMAIN ordered_tasks :
                    ordered_tasks[k].task.directory = configs[i].dir_path

\* A tree was built and its tasks selected from four discovered paths, one
\* of them spelled through a parent directory.
C27_Witness ==
    /\ Selected
    /\ Len(found_config_paths) >= 4
    /\ \E i \in DOMAIN found_config_paths :
        ".." \in Range(found_config_paths[i])
    /\ NodeFiles = Range(found_config_paths)
    /\ Len(ordered_tasks) >= 4
====
